---------------------------- MODULE Spec2Model ----------------------------
(***************************************************************************)
(* Model of incident_tracker.py: a command-line incident tracker whose     *)
(* only state is the file incidents.json.  Every invocation of the program *)
(* runs one handler (init, add, list, update, export, stats, seed) and     *)
(* then the process ends.                                                  *)
(*                                                                         *)
(* Encodings.  A Python value that may be None, and a dict key that may be *)
(* missing, is a sequence of length 0 (None / missing) or 1 (the value).   *)
(* Vocabulary strings are TLA+ strings; free text that the program         *)
(* concatenates (notes) is a sequence of one-character strings.            *)
(* A timestamp datetime.utcnow().isoformat()+"Z" is the value of the wall  *)
(* clock, which advances between invocations.                              *)
(***************************************************************************)
EXTENDS Integers, Sequences, FiniteSets, TLC

VARIABLES
    store,      \* the file incidents.json: [kind, data]
    clock,      \* the wall clock (datetime.utcnow)
    inv,        \* the running invocation and its outcome, or Idle
    noteLog     \* history: per stored record, the notes given to update since
                \* the record was created without notes (None: not tracked)

vars == <<store, clock, inv, noteLog>>

(***************************************************************************)
(* Bounds of the model.                                                    *)
(***************************************************************************)
\* invocations of the program in one behaviour
MaxClock == 2

(***************************************************************************)
(* Python values.                                                          *)
(***************************************************************************)
None == <<>>
Some(v) == <<v>>

\* "if x:" for an optional string: not None and not ""
Truthy(o) == Len(o) = 1 /\ o[1] /= ""
\* "if x:" for an optional text (a character sequence)
TruthyText(o) == Len(o) = 1 /\ Len(o[1]) > 0
\* "x or ''" and dict.get(key, default)
get(o, default) == IF Len(o) = 1 THEN o[1] ELSE default

\* str.lower() on the strings the model uses
Lower(s) ==
    CASE s = "HIGH" -> "high"
      [] s = "Detect" -> "detect"
      [] s = "Respond" -> "respond"
      [] s = "Closed" -> "closed"
      [] s = "Phishing" -> "phishing"
      [] s = "Tt" -> "tt"
      [] s = "Alice" -> "alice"
      [] s = "ALICE" -> "alice"
      [] s = "Bob" -> "bob"
      [] OTHER -> s

NL == "\n"

NIST_PHASES == {"identify", "protect", "detect", "respond", "recover"}
STATUSES == {"open", "in_progress", "contained", "eradicated", "recovered", "closed"}
SEVERITIES == {"low", "medium", "high", "critical"}

(***************************************************************************)
(* The store file.                                                         *)
(***************************************************************************)
Absent == [kind |-> "absent", data |-> <<>>]
Corrupt == [kind |-> "corrupt", data |-> <<>>]

exists(file) == file.kind /= "absent"

\* _load: a missing file and a file that is not JSON both read as []
_load(file) == IF file.kind = "json" THEN file.data ELSE <<>>

\* _save: the whole file is rewritten with the list
_save(data) == [kind |-> "json", data |-> data]

(***************************************************************************)
(* Inputs.  The handlers are modelled as called with any argument values,  *)
(* also values that argparse's "choices" would refuse before the handler   *)
(* runs, so that the handlers' own lower-casing and validation are         *)
(* exercised.  An option declared with choices (severity, phase, status)   *)
(* is None or a non-empty string, since argparse never passes "" for it;   *)
(* --owner and --notes may carry "".                                       *)
(***************************************************************************)
\* str(uuid.uuid4())[:8]: any 8 hexadecimal digits
Uuids == {"id1", "id2"}

Titles == {"Tt"}
Categories == {"Phishing"}
AddSeverities == {"HIGH", "bogus"}
AddPhases == {"Detect", "bogus"}
AddOwners == {None, Some("Alice")}
AddNotes == {None, Some(<<"a">>)}

UpdateIds == Uuids
UpdateStatuses == {None, Some("Closed"), Some("bogus")}
UpdatePhases == {None, Some("Respond"), Some("bogus")}
UpdateOwners == {None, Some(""), Some("Bob")}
UpdateNotes == {None, Some(<<>>), Some(<<"a">>), Some(<<"b">>)}

ListSeverities == {None, Some("HIGH"), Some("low")}
ListPhases == {None, Some("Detect")}
ListStatuses == {None, Some("Closed")}
ListOwners == {None, Some(""), Some("ALICE"), Some("bob")}

ExportOutputs == {None, Some("out.csv")}

\* the store the repository's test leaves behind: init --force, then
\* add "Test incident" --category phishing --severity low --phase detect
TestStore ==
    _save(<< [id |-> "id1", title |-> "Test incident", category |-> "phishing",
              severity |-> "low", phase |-> "detect", status |-> "open",
              reported_at |-> 0, updated_at |-> None,
              owner |-> Some(""), notes |-> Some(<<>>)] >>)

\* sample_data.json: an array of records of the same shape; the first record
\* carries neither owner nor notes
SampleData ==
    << [id |-> "id1", title |-> "Sample one", category |-> "malware",
        severity |-> "critical", phase |-> "respond", status |-> "in_progress",
        reported_at |-> 0, updated_at |-> None,
        owner |-> None, notes |-> None],
       [id |-> "id2", title |-> "Sample two", category |-> "access",
        severity |-> "high", phase |-> "detect", status |-> "open",
        reported_at |-> 0, updated_at |-> None,
        owner |-> Some("Alice"), notes |-> Some(<<"a">>)] >>

(***************************************************************************)
(* Invocations.                                                            *)
(***************************************************************************)
Idle == [op |-> "idle"]

\* main: one handler per process, while the model's clock allows
Ready == inv.op = "idle" /\ clock <= MaxClock

Outcome(op, args, code, msg, out) ==
    [op |-> op, args |-> args, pre |-> store, preLog |-> noteLog,
     code |-> code, msg |-> msg, out |-> out]

\* the process ends; time passes before the next invocation
Exit ==
    /\ inv.op /= "idle"
    /\ inv' = Idle
    /\ clock' = clock + 1
    /\ UNCHANGED <<store, noteLog>>

(***************************************************************************)
(* init                                                                    *)
(***************************************************************************)
\* variant: the existence test is dropped, so init always overwrites
init_always(file, force) == FALSE

init_blocked(file, force) == exists(file) /\ ~force

init_store(force) ==
    /\ Ready
    /\ IF init_blocked(store, force)
       THEN /\ inv' = Outcome("init", [force |-> force], 0, "already exists", None)
            /\ UNCHANGED <<store, noteLog>>
       ELSE /\ store' = _save(<<>>)
            /\ noteLog' = <<>>
            /\ inv' = Outcome("init", [force |-> force], 0, "Initialized", None)
    /\ UNCHANGED clock

(***************************************************************************)
(* add                                                                     *)
(***************************************************************************)
new_incident(title, category, severity, phase, owner, notes, uuid, now) ==
    [id |-> uuid, title |-> title, category |-> Lower(category),
     severity |-> Lower(severity), phase |-> Lower(phase), status |-> "open",
     reported_at |-> now, updated_at |-> None,
     owner |-> Some(get(owner, "")), notes |-> Some(get(notes, <<>>))]

\* variant: only the severity is checked
add_check_severity_only(inc) ==
    IF inc.severity \notin SEVERITIES THEN "Invalid severity" ELSE ""

\* the two checks of add, in order: "" when both pass
add_check(inc) ==
    IF inc.severity \notin SEVERITIES THEN "Invalid severity"
    ELSE IF inc.phase \notin NIST_PHASES THEN "Invalid phase"
    ELSE ""

add_incident(title, category, severity, phase, owner, notes, uuid) ==
    /\ Ready
    /\ LET data == _load(store)
           inc == new_incident(title, category, severity, phase, owner, notes,
                               uuid, clock)
           args == [title |-> title, category |-> category, severity |-> severity,
                    phase |-> phase, owner |-> owner, notes |-> notes]
           err == add_check(inc)
       IN  IF err /= ""
           THEN /\ inv' = Outcome("add", args, 1, err, None)
                /\ UNCHANGED <<store, noteLog>>
           ELSE /\ store' = _save(Append(data, inc))
                /\ noteLog' = Append(noteLog,
                                     IF TruthyText(notes) THEN None ELSE Some(<<>>))
                /\ inv' = Outcome("add", args, 0, "Added", Some(inc))
    /\ UNCHANGED clock

(***************************************************************************)
(* list                                                                    *)
(***************************************************************************)
\* the loop body of list_incidents: TRUE when no "continue" is taken
keeps(inc, severity, phase, status, owner) ==
    /\ ~(Truthy(severity) /\ inc.severity /= Lower(severity[1]))
    /\ ~(Truthy(phase) /\ inc.phase /= Lower(phase[1]))
    /\ ~(Truthy(status) /\ inc.status /= Lower(status[1]))
    /\ ~(Truthy(owner) /\ Lower(get(inc.owner, "")) /= Lower(owner[1]))

filter(data, severity, phase, status, owner) ==
    SelectSeq(data, LAMBDA inc : keeps(inc, severity, phase, status, owner))

list_incidents(severity, phase, status, owner) ==
    /\ Ready
    /\ LET filtered == filter(_load(store), severity, phase, status, owner)
           args == [severity |-> severity, phase |-> phase, status |-> status,
                    owner |-> owner]
       IN  inv' = Outcome("list", args, 0,
                          IF filtered = <<>> THEN "No incidents found" ELSE "listed",
                          filtered)
    /\ UNCHANGED <<store, clock, noteLog>>

(***************************************************************************)
(* update                                                                  *)
(***************************************************************************)
\* variant: the id is not compared, the first record is taken
find_first(data, id) == IF Len(data) > 0 THEN 1 ELSE 0

\* "for inc in data: if inc['id'] == args.id": the first match, 0 when none
find_incident(data, id) ==
    IF \E i \in 1..Len(data) : data[i].id = id
    THEN CHOOSE i \in 1..Len(data) :
             data[i].id = id /\ \A j \in 1..(i - 1) : data[j].id /= id
    ELSE 0

\* variants: the membership tests are dropped
status_any(status) == TRUE

phase_any(phase) == TRUE

status_ok(status) == Lower(status) \in STATUSES

phase_ok(phase) == Lower(phase) \in NIST_PHASES

\* r = [err, inc]: err is the message of the sys.exit taken, "" when none;
\* inc is the record as it stands in memory
set_status(r, status) ==
    IF ~Truthy(status) THEN r
    ELSE IF ~status_ok(status[1]) THEN [r EXCEPT !.err = "Invalid status"]
    ELSE [r EXCEPT !.inc.status = Lower(status[1])]

set_phase(r, phase) ==
    IF r.err /= "" \/ ~Truthy(phase) THEN r
    ELSE IF ~phase_ok(phase[1]) THEN [r EXCEPT !.err = "Invalid phase"]
    ELSE [r EXCEPT !.inc.phase = Lower(phase[1])]

\* variant: "if args.owner:" in place of "if args.owner is not None:"
set_owner_if_truthy(inc, owner) ==
    IF Truthy(owner) THEN [inc EXCEPT !.owner = Some(owner[1])] ELSE inc

set_owner(inc, owner) ==
    IF owner /= None THEN [inc EXCEPT !.owner = Some(owner[1])] ELSE inc

\* variant: the new notes replace the old ones
replace_notes(inc, notes) ==
    IF TruthyText(notes) THEN [inc EXCEPT !.notes = Some(notes[1])] ELSE inc

append_notes(inc, notes) ==
    IF TruthyText(notes)
    THEN [inc EXCEPT !.notes =
              Some((IF TruthyText(inc.notes) THEN inc.notes[1] \o <<NL>> ELSE <<>>)
                   \o notes[1])]
    ELSE inc

stamp(inc, now) == [inc EXCEPT !.updated_at = Some(now)]

update_record(inc, status, phase, owner, notes, now) ==
    LET r == set_phase(set_status([err |-> "", inc |-> inc], status), phase)
    IN  IF r.err /= "" THEN r
        ELSE [err |-> "",
              inc |-> stamp(append_notes(set_owner(r.inc, owner), notes), now)]

update_incident(id, status, phase, owner, notes) ==
    /\ Ready
    /\ LET data == _load(store)
           i == find_incident(data, id)
           args == [id |-> id, status |-> status, phase |-> phase,
                    owner |-> owner, notes |-> notes]
       IN  IF i = 0
           THEN /\ inv' = Outcome("update", args, 0, "No incident", None)
                /\ UNCHANGED <<store, noteLog>>
           ELSE LET r == update_record(data[i], status, phase, owner, notes, clock)
                IN  IF r.err /= ""
                    THEN /\ inv' = Outcome("update", args, 1, r.err, None)
                         /\ UNCHANGED <<store, noteLog>>
                    ELSE /\ store' = _save([data EXCEPT ![i] = r.inc])
                         /\ noteLog' =
                              IF TruthyText(notes) /\ noteLog[i] /= None
                              THEN [noteLog EXCEPT
                                      ![i] = Some(Append(noteLog[i][1], notes[1]))]
                              ELSE noteLog
                         /\ inv' = Outcome("update", args, 0, "Updated", Some(i))
    /\ UNCHANGED clock

(***************************************************************************)
(* export, stats, seed                                                     *)
(***************************************************************************)
export_csv(output) ==
    /\ Ready
    /\ LET data == _load(store)
       IN  inv' = IF data = <<>>
                  THEN Outcome("export", [output |-> output], 0, "No data to export",
                               None)
                  ELSE Outcome("export", [output |-> output], 0, "Exported",
                               Some([path |-> get(output, "incidents_export.csv"),
                                     rows |-> Len(data)]))
    /\ UNCHANGED <<store, clock, noteLog>>

\* collections.Counter over a list of keys
Counter(keys) ==
    [k \in {keys[i] : i \in 1..Len(keys)} |->
        Cardinality({i \in 1..Len(keys) : keys[i] = k})]

stats ==
    /\ Ready
    /\ LET data == _load(store)
           col(f) == [i \in 1..Len(data) |-> data[i][f]]
       IN  inv' = IF data = <<>>
                  THEN Outcome("stats", None, 0, "No incidents yet", None)
                  ELSE Outcome("stats", None, 0, "stats",
                               Some([by_sev |-> Counter(col("severity")),
                                     by_phase |-> Counter(col("phase")),
                                     by_status |-> Counter(col("status"))]))
    /\ UNCHANGED <<store, clock, noteLog>>

seed(sampleExists) ==
    /\ Ready
    /\ IF ~sampleExists
       THEN /\ inv' = Outcome("seed", None, 0, "sample_data.json not found", None)
            /\ UNCHANGED <<store, noteLog>>
       ELSE /\ store' = _save(SampleData)
            /\ noteLog' = [i \in 1..Len(SampleData) |-> None]
            /\ inv' = Outcome("seed", None, 0, "Seeded", Some(Len(SampleData)))
    /\ UNCHANGED clock

Init ==
    /\ store \in {Absent, Corrupt, TestStore}
    /\ clock = 1
    /\ inv = Idle
    /\ noteLog = IF store = TestStore THEN <<Some(<<>>)>> ELSE <<>>

Next ==
    \/ \E force \in BOOLEAN : init_store(force)
    \/ \E title \in Titles, category \in Categories, severity \in AddSeverities,
          phase \in AddPhases, owner \in AddOwners, notes \in AddNotes,
          uuid \in Uuids :
          add_incident(title, category, severity, phase, owner, notes, uuid)
    \/ \E severity \in ListSeverities, phase \in ListPhases,
          status \in ListStatuses, owner \in ListOwners :
          list_incidents(severity, phase, status, owner)
    \/ \E id \in UpdateIds, status \in UpdateStatuses, phase \in UpdatePhases,
          owner \in UpdateOwners, notes \in UpdateNotes :
          update_incident(id, status, phase, owner, notes)
    \/ \E output \in ExportOutputs : export_csv(output)
    \/ stats
    \/ \E sampleExists \in BOOLEAN : seed(sampleExists)
    \/ Exit

Spec == Init /\ [][Next]_vars

(***************************************************************************)
(* Vocabulary of the properties.                                           *)
(***************************************************************************)
Before == _load(inv.pre)
After == _load(store)

Ids(data) == [i \in 1..Len(data) |-> data[i].id]

HasId(data, id) == \E i \in 1..Len(data) : data[i].id = id

\* the position of the first record with this id
FirstMatch(data, id) ==
    CHOOSE i \in 1..Len(data) :
        data[i].id = id /\ \A j \in 1..Len(data) : data[j].id = id => i <= j

RECURSIVE IsSubseq(_, _)
IsSubseq(s, t) ==
    IF s = <<>> THEN TRUE
    ELSE IF t = <<>> THEN FALSE
    ELSE IF Head(s) = Head(t) THEN IsSubseq(Tail(s), Tail(t))
    ELSE IsSubseq(s, Tail(t))

RECURSIVE Join(_)
Join(ns) ==
    IF ns = <<>> THEN <<>>
    ELSE IF Len(ns) = 1 THEN ns[1]
    ELSE ns[1] \o <<NL>> \o Join(Tail(ns))

AddValid == Lower(inv.args.severity) \in SEVERITIES /\ Lower(inv.args.phase) \in NIST_PHASES

(***************************************************************************)
(* C1.  After an add whose lower-cased severity and phase are valid, the   *)
(* store is the store before it with exactly one record appended; the      *)
(* record has the given title, the lower-cased category, severity and      *)
(* phase, status open, no updated_at, and an id that no record of the      *)
(* store before has.                                                       *)
(***************************************************************************)
C1_AddAppendsFreshRecord ==
    (inv.op = "add" /\ AddValid) =>
        /\ Len(After) = Len(Before) + 1
        /\ SubSeq(After, 1, Len(Before)) = Before
        /\ LET r == After[Len(After)]
           IN  /\ r.title = inv.args.title
               /\ r.category = Lower(inv.args.category)
               /\ r.severity = Lower(inv.args.severity)
               /\ r.phase = Lower(inv.args.phase)
               /\ r.status = "open"
               /\ r.updated_at = None
               /\ ~HasId(Before, r.id)

\* the same statement without its last line: what add does guarantee
AddAppendsRecord ==
    (inv.op = "add" /\ AddValid) =>
        /\ inv.code = 0
        /\ Len(After) = Len(Before) + 1
        /\ SubSeq(After, 1, Len(Before)) = Before
        /\ LET r == After[Len(After)]
           IN  /\ r.title = inv.args.title
               /\ r.category = Lower(inv.args.category)
               /\ r.severity = Lower(inv.args.severity)
               /\ r.phase = Lower(inv.args.phase)
               /\ r.status = "open"
               /\ r.updated_at = None

(***************************************************************************)
(* C2.  An add whose lower-cased severity or phase is not in its           *)
(* vocabulary exits non-zero with a validation message and leaves the      *)
(* store file as it was.                                                   *)
(***************************************************************************)
C2_InvalidAddRejected ==
    (inv.op = "add" /\ ~AddValid) =>
        /\ inv.code /= 0
        /\ inv.msg \in {"Invalid severity", "Invalid phase"}
        /\ store = inv.pre

C2_Witness ==
    /\ inv.op = "add"
    /\ Lower(inv.args.severity) \in SEVERITIES
    /\ Lower(inv.args.phase) \notin NIST_PHASES
    /\ Len(Before) > 0
    /\ inv.code = 1

(***************************************************************************)
(* C3.  An update of an existing id that supplies a status outside the     *)
(* status vocabulary or a phase outside the phase vocabulary exits         *)
(* non-zero with a validation message and writes nothing: the store file,  *)
(* and so the record's status, phase, owner, notes and updated_at, are as  *)
(* before, also when a valid status came with the invalid phase.           *)
(***************************************************************************)
UpdateInvalid ==
    \/ inv.args.status /= None /\ Lower(inv.args.status[1]) \notin STATUSES
    \/ inv.args.phase /= None /\ Lower(inv.args.phase[1]) \notin NIST_PHASES

C3_InvalidUpdateWritesNothing ==
    (inv.op = "update" /\ HasId(Before, inv.args.id) /\ UpdateInvalid) =>
        /\ inv.code /= 0
        /\ inv.msg \in {"Invalid status", "Invalid phase"}
        /\ store = inv.pre

C3_Witness ==
    /\ inv.op = "update"
    /\ HasId(Before, inv.args.id)
    /\ inv.args.status = Some("Closed")
    /\ inv.args.phase = Some("bogus")
    /\ inv.args.owner = Some("Bob")
    /\ TruthyText(inv.args.notes)
    /\ inv.msg = "Invalid phase"
    /\ Before[FirstMatch(Before, inv.args.id)].status = "open"

(***************************************************************************)
(* C4.  An update whose id is the id of no record reports not-found and    *)
(* leaves the store file as it was, whatever else was supplied.            *)
(***************************************************************************)
C4_UnknownIdWritesNothing ==
    (inv.op = "update" /\ ~HasId(Before, inv.args.id)) =>
        /\ inv.msg = "No incident"
        /\ store = inv.pre

C4_Witness ==
    /\ inv.op = "update"
    /\ Len(Before) > 0
    /\ ~HasId(Before, inv.args.id)
    /\ inv.args.status = Some("Closed")
    /\ inv.args.owner = Some("Bob")
    /\ TruthyText(inv.args.notes)
    /\ inv.msg = "No incident"

(***************************************************************************)
(* C5.  A successful update with non-empty notes n on a record with notes  *)
(* e sets the notes to e, a newline and n when e is non-empty and to n     *)
(* when e is empty or absent; an update without (or with empty) notes      *)
(* leaves the notes alone; so the notes of a record created without notes  *)
(* are the notes given to its updates, in call order, joined by newlines.  *)
(***************************************************************************)
C5_NotesAppend ==
    /\ (inv.op = "update" /\ inv.msg = "Updated") =>
           LET k == FirstMatch(Before, inv.args.id)
               e == get(Before[k].notes, <<>>)
           IN  IF TruthyText(inv.args.notes)
               THEN After[k].notes =
                        Some(IF e = <<>> THEN inv.args.notes[1]
                             ELSE e \o <<NL>> \o inv.args.notes[1])
               ELSE After[k].notes = Before[k].notes
    /\ Len(noteLog) = Len(After)
    /\ \A i \in 1..Len(noteLog) :
           noteLog[i] /= None => get(After[i].notes, <<>>) = Join(noteLog[i][1])

C5_Witness ==
    /\ inv.op = "update"
    /\ inv.msg = "Updated"
    /\ \E i \in 1..Len(After) :
           /\ noteLog[i] = Some(<< <<"a">>, <<"b">> >>)
           /\ After[i].notes = Some(<<"a", NL, "b">>)

(***************************************************************************)
(* C6.  As claimed: whatever the operation, every record id of the store   *)
(* before it is in the store after it, in the same relative order.         *)
(***************************************************************************)
C6_NoRecordEverRemoved ==
    inv.op /= "idle" => IsSubseq(Ids(Before), Ids(After))

(***************************************************************************)
(* C6, amended.  What is read from the store file is always a sequence of  *)
(* records, and init without --force, add, update, list, export and stats  *)
(* remove no record: every record id of the store before is in the store   *)
(* after, in the same relative order, a record added coming last.  (init   *)
(* --force and seed rewrite the whole store.)                              *)
(***************************************************************************)
Rewrites == (inv.op = "init" /\ inv.args.force) \/ inv.op = "seed"

C6_NoRecordRemovedUnlessRewritten ==
    /\ store.kind \in {"absent", "corrupt", "json"}
    /\ store.kind /= "json" => store.data = <<>>
    /\ (inv.op /= "idle" /\ ~Rewrites) =>
           /\ IsSubseq(Ids(Before), Ids(After))
           /\ Len(After) >= Len(Before)
           /\ SubSeq(Ids(After), 1, Len(Before)) = Ids(Before)

C6_Witness ==
    /\ inv.op = "init"
    /\ ~inv.args.force
    /\ Len(Before) > 0
    /\ After = Before

(***************************************************************************)
(* C7.  No two records of the store have the same id.                      *)
(***************************************************************************)
C7_IdsUnique ==
    \A i, j \in 1..Len(After) : After[i].id = After[j].id => i = j

Pred(r, a, supplied(_)) ==
    /\ supplied(a.severity) => Lower(r.severity) = Lower(a.severity[1])
    /\ supplied(a.phase) => Lower(r.phase) = Lower(a.phase[1])
    /\ supplied(a.status) => Lower(r.status) = Lower(a.status[1])
    /\ supplied(a.owner) => Lower(get(r.owner, "")) = Lower(a.owner[1])

Given(o) == o /= None

\* the predicates applied one at a time, in the order p
OneAtATime(p, data, a) ==
    LET f(k, d) == filter(d, IF k = 1 THEN a.severity ELSE None,
                             IF k = 2 THEN a.phase ELSE None,
                             IF k = 3 THEN a.status ELSE None,
                             IF k = 4 THEN a.owner ELSE None)
    IN  f(p[4], f(p[3], f(p[2], f(p[1], data))))

Orders == {p \in [1..4 -> 1..4] : \A i, j \in 1..4 : p[i] = p[j] => i = j}

FilterLaws ==
    /\ filter(inv.out, inv.args.severity, inv.args.phase, inv.args.status,
              inv.args.owner) = inv.out
    /\ \A p \in Orders : OneAtATime(p, Before, inv.args) = inv.out

C9_ListSelectsSupplied ==
    inv.op = "list" =>
        /\ inv.out = SelectSeq(Before, LAMBDA r : Pred(r, inv.args, Given))
        /\ FilterLaws

(***************************************************************************)
(* What list does guarantee: it selects, in store order, exactly the       *)
(* records that match every predicate given with a non-empty value (a      *)
(* predicate given as the empty string is skipped like one not given),     *)
(* the two laws hold, and the store file is not written.                   *)
(***************************************************************************)
ListSelectsNonEmpty ==
    inv.op = "list" =>
        /\ inv.out = SelectSeq(Before, LAMBDA r : Pred(r, inv.args, Truthy))
        /\ FilterLaws
        /\ store = inv.pre

ListSelectsOne ==
    /\ inv.op = "list"
    /\ inv.args.severity = Some("HIGH")
    /\ inv.args.owner = Some("ALICE")
    /\ Len(Before) = 2
    /\ Len(inv.out) = 1
    /\ inv.out[1] = Before[2]

(***************************************************************************)
(* C10.  A successful update changes only the first record with the given  *)
(* id: the store keeps its length and order and every other record; the    *)
(* matched record keeps id, title, category, severity and reported_at;     *)
(* status, phase and owner are replaced when supplied (owner also by the   *)
(* empty string) and kept otherwise; updated_at is the time of the update, *)
(* also when no field is supplied.                                         *)
(***************************************************************************)
C10_UpdateFrame ==
    (inv.op = "update" /\ HasId(Before, inv.args.id) /\ ~UpdateInvalid) =>
        LET k == FirstMatch(Before, inv.args.id)
            a == inv.args
        IN  /\ inv.msg = "Updated"
            /\ Len(After) = Len(Before)
            /\ \A i \in 1..Len(Before) : i /= k => After[i] = Before[i]
            /\ After[k].id = Before[k].id
            /\ After[k].title = Before[k].title
            /\ After[k].category = Before[k].category
            /\ After[k].severity = Before[k].severity
            /\ After[k].reported_at = Before[k].reported_at
            /\ After[k].status =
                   IF a.status /= None THEN Lower(a.status[1]) ELSE Before[k].status
            /\ After[k].phase =
                   IF a.phase /= None THEN Lower(a.phase[1]) ELSE Before[k].phase
            /\ After[k].owner = IF a.owner /= None THEN a.owner ELSE Before[k].owner
            /\ After[k].updated_at = Some(clock)

C10_Witness ==
    /\ inv.op = "update"
    /\ inv.msg = "Updated"
    /\ inv.args.status = None /\ inv.args.phase = None
    /\ inv.args.owner = None /\ inv.args.notes = None
    /\ Len(Before) = 2
    /\ FirstMatch(Before, inv.args.id) = 2
    /\ Before[2].updated_at = None
    /\ After[2].updated_at = Some(clock)
    /\ After[1] = Before[1]

=============================================================================
